---- MODULE Spec2Model ----
(***************************************************************************)
(* Model of pipa_collector::raw_perf_events: create_event_group, the       *)
(* EventGroup handle (leader_fd, Drop) and the kernel descriptor table    *)
(* they act on through perf_event_open(2) and close(2).                    *)
(***************************************************************************)
EXTENDS Integers, Sequences, FiniteSets, TLC

\* ---------------------------------------------------------------- bounds
MaxEvents == 3      \* longest event list passed to create_event_group
MaxFd == 5          \* highest descriptor number the kernel hands out

\* ------------------------------------------------- kernel ABI constants
PERF_TYPE_HARDWARE == 0
PERF_COUNT_HW_CPU_CYCLES == 0
PERF_COUNT_HW_INSTRUCTIONS == 1
PERF_FORMAT_ID == 4
PERF_FORMAT_GROUP == 8

\* enum PerfEvent
PerfEvent == {"Cycles", "Instructions"}

\* errno values a failing perf_event_open can leave behind
\* (ENOENT, EACCES, EMFILE)
OsErrors == {2, 13, 24}

\* descriptor numbers the kernel may return (0..2 are the standard streams)
FdPool == 3..MaxFd

EventLists == UNION {[1..n -> PerfEvent] : n \in 0..MaxEvents}

Range(s) == {s[k] : k \in DOMAIN s}

RECURSIVE BitOr(_, _)
BitOr(a, b) ==
    IF a = 0 THEN b
    ELSE IF b = 0 THEN a
    ELSE (IF a % 2 = 1 \/ b % 2 = 1 THEN 1 ELSE 0)
         + 2 * BitOr(a \div 2, b \div 2)

\* PerfEvent::to_config
to_config(event) ==
    IF event = "Cycles"
    THEN <<PERF_TYPE_HARDWARE, PERF_COUNT_HW_CPU_CYCLES>>
    ELSE <<PERF_TYPE_HARDWARE, PERF_COUNT_HW_INSTRUCTIONS>>

\* events.is_empty()
is_empty_never(evs) == FALSE

is_empty(evs) == Len(evs) = 0

\* the perf_event_attr built in iteration idx of the loop
attrs_flags_on_every_member(idx, event) ==
    [type_ |-> to_config(event)[1], config |-> to_config(event)[2],
     size |-> "size_of_perf_event_attr",
     disabled |-> 1, inherit |-> 1,
     read_format |-> BitOr(PERF_FORMAT_GROUP, PERF_FORMAT_ID)]

build_attrs(idx, event) ==
    LET attrs == [type_ |-> to_config(event)[1],
                  config |-> to_config(event)[2],
                  size |-> "size_of_perf_event_attr",
                  disabled |-> 0, inherit |-> 0, read_format |-> 0]
    IN IF idx = 0
       THEN [attrs EXCEPT !.disabled = 1, !.inherit = 1,
                          !.read_format = BitOr(PERF_FORMAT_GROUP, PERF_FORMAT_ID)]
       ELSE attrs

\* if fd < 0
open_failed_only_below_minus_one(fd) == fd < -1

open_failed(fd) == fd < 0

\* PipaCollectorError::Io(io::Error::last_os_error())
io_error_without_os_code(code) == [tag |-> "Io", code |-> 0]

io_error(code) == [tag |-> "Io", code |-> code]

\* PipaCollectorError::InvalidFormat("Cannot create an event group with no events.")
invalid_format_error ==
    [tag |-> "InvalidFormat", msg |-> "Cannot create an event group with no events."]

\* if i == 0 { leader_fd = fd; }
leader_follows_last_open(idx, leader, fd) == fd

next_leader_fd(idx, leader, fd) == IF idx = 0 THEN fd ELSE leader

\* fds.push(fd)
push_leader_only(v, fd) == IF Len(v) = 0 THEN Append(v, fd) ELSE v

push(v, fd) == Append(v, fd)

\* EventGroup::leader_fd
leader_fd_is_last_member(g) == g.fds[Len(g.fds)]

EventGroup_leader_fd(g) == g.fds[1]

\* Drop for EventGroup: the close(2) calls made, failing is the set of
\* positions whose close returns -1 (the return value is discarded)
drop_stop_at_first_failure(v, failing) ==
    LET first == IF failing = {} THEN Len(v)
                 ELSE CHOOSE k \in failing : \A m \in failing : k <= m
    IN [k \in 1..first |-> [fd |-> v[k], ret |-> IF k \in failing THEN -1 ELSE 0]]

drop_skip_leader(v, failing) ==
    [k \in 1..(Len(v) - 1) |->
        [fd |-> v[k + 1], ret |-> IF (k + 1) \in failing THEN -1 ELSE 0]]

drop_closes(v, failing) ==
    [k \in 1..Len(v) |-> [fd |-> v[k], ret |-> IF k \in failing THEN -1 ELSE 0]]

VARIABLES
    events,     \* the slice passed to create_event_group
    pc,         \* lifecycle position of the group
    i,          \* loop index of create_event_group
    fds,        \* local Vec<RawFd> of create_event_group
    leader_fd,  \* local leader_fd of create_event_group
    calls,      \* perf_event_open calls issued, with arguments and result
    closes,     \* close calls issued, with result
    openFds,    \* descriptors open in the kernel's table for this process
    errno,      \* thread-local errno
    result,     \* value returned by create_event_group
    exposed     \* values handed to the caller by leader_fd()

vars == <<events, pc, i, fds, leader_fd, calls, closes, openFds, errno, result, exposed>>

\* ------------------------------------------- state of the other units
VARIABLES
    cpu_fields,   \* the values written on the line, in order
    cpu_line,     \* the line handed to parse_cpu_stats_from_line
    cpu_parsed    \* its result, Pending before the call

cpuVars == <<cpu_fields, cpu_line, cpu_parsed>>

CpuLineUnused == cpu_fields = <<>> /\ cpu_line = <<>> /\ cpu_parsed = [tag |-> "Pending"]

VARIABLES
    mem_lines,    \* the lines the content was put together from
    mem_content,  \* the text handed to parse_memory_stats_from_content
    mem_parsed    \* its result, Pending before the call

memVars == <<mem_lines, mem_content, mem_parsed>>

MemContentUnused ==
    mem_lines = <<>> /\ mem_content = <<>> /\ mem_parsed = [tag |-> "Pending"]

VARIABLES
    prev,             \* the earlier CpuStats snapshot
    current,          \* the later CpuStats snapshot
    overflow_checks,  \* whether the build checks integer overflow
    usage             \* what calculate_cpu_usage gave, Pending before the call

usageVars == <<prev, current, overflow_checks, usage>>

CpuStatsDefault ==
    [user |-> 0, nice |-> 0, system |-> 0, idle |-> 0, iowait |-> 0, irq |-> 0,
     softirq |-> 0, steal |-> 0, guest |-> 0, guest_nice |-> 0]

CpuUsageUnused ==
    /\ prev = CpuStatsDefault
    /\ current = CpuStatsDefault
    /\ overflow_checks = FALSE
    /\ usage = [tag |-> "Pending"]

VARIABLES
    mon_pc,             \* position of run_monitor
    raw_mode,           \* the terminal is in raw mode
    alt_screen,         \* the terminal shows the alternate screen
    setup_ok,           \* setup_terminal returned Ok
    restore_called,     \* restore_terminal was entered
    prev_stats,         \* Option<CpuStats> kept across passes
    current_stats,      \* snapshot of this pass
    mem_stats,          \* memory figures of this pass
    cpu_usage_percent,  \* the figure handed to draw_ui
    mon_iter,           \* passes of the loop finished
    mon_result,         \* what run_monitor returned
    mon_checks          \* whether the build checks integer overflow

monVars ==
    <<mon_pc, raw_mode, alt_screen, setup_ok, restore_called, prev_stats, current_stats,
      mem_stats, cpu_usage_percent, mon_iter, mon_result, mon_checks>>

MonitorUnused ==
    /\ mon_pc = "start"
    /\ raw_mode = FALSE
    /\ alt_screen = FALSE
    /\ setup_ok = FALSE
    /\ restore_called = FALSE
    /\ prev_stats = [some |-> FALSE]
    /\ current_stats = CpuStatsDefault
    /\ mem_stats = [total |-> 0, free |-> 0, available |-> 0, buffers |-> 0, cached |-> 0]
    /\ cpu_usage_percent = [num |-> 0, den |-> 1]
    /\ mon_iter = 0
    /\ mon_result = [tag |-> "None"]
    /\ mon_checks = FALSE

\* every variable of the module
allVars == <<vars, cpuVars, memVars, usageVars, monVars>>

\* the variables run_monitor never touches
notMonVars == <<vars, cpuVars, memVars, usageVars>>

\* the variables calculate_cpu_usage never touches
notUsageVars == <<vars, cpuVars, memVars, monVars>>

\* the variables the meminfo parser never touches
notMemVars == <<vars, cpuVars, usageVars, monVars>>

\* the variables create_event_group and EventGroup never touch
notPerfVars == <<cpuVars, memVars, usageVars, monVars>>

\* the variables the cpu-line parser never touches
notCpuVars == <<vars, memVars, usageVars, monVars>>

\* the performance-counter unit at rest
PerfUnused ==
    /\ events = <<>>
    /\ pc = "Uninitialized"
    /\ i = 0
    /\ fds = <<>>
    /\ leader_fd = -1
    /\ calls = <<>>
    /\ closes = <<>>
    /\ openFds = {}
    /\ errno = 0
    /\ result = [tag |-> "None"]
    /\ exposed = <<>>

Init ==
    /\ events \in EventLists
    /\ pc = "Uninitialized"
    /\ i = 0
    /\ fds = <<>>
    /\ leader_fd = -1
    /\ calls = <<>>
    /\ closes = <<>>
    /\ openFds = {}
    /\ errno = 0
    /\ result = [tag |-> "None"]
    /\ exposed = <<>>
    /\ CpuLineUnused
    /\ MemContentUnused
    /\ CpuUsageUnused
    /\ MonitorUnused

\* create_event_group up to the loop: the empty-list check and the locals
CreateEventGroupEntry ==
    /\ pc = "Uninitialized"
    /\ IF is_empty(events)
       THEN /\ result' = [tag |-> "Err", err |-> invalid_format_error]
            /\ pc' = "OpenFailed"
       ELSE /\ result' = result
            /\ pc' = "Opening"
    /\ fds' = <<>>
    /\ leader_fd' = -1
    /\ i' = 0
    /\ UNCHANGED <<events, calls, closes, openFds, errno, exposed>>
    /\ UNCHANGED notPerfVars

\* one iteration of the loop: build the attribute record, issue the
\* syscall, return the error or record the descriptor.  The kernel either
\* returns a descriptor that was not open or -1 with errno set.
OpenMember ==
    /\ pc = "Opening"
    /\ i < Len(events)
    /\ \E fd \in (FdPool \ openFds) \cup {-1} :
       \E e \in OsErrors :
         LET attrs == build_attrs(i, events[i + 1])
             err == IF fd < 0 THEN e ELSE errno
             call == [index |-> i, event |-> events[i + 1], attrs |-> attrs,
                      pid |-> 0, cpu |-> -1, group_fd |-> leader_fd,
                      flags |-> 0, ret |-> fd, errno |-> err]
         IN /\ (fd >= 0 => e = 2)
            /\ calls' = Append(calls, call)
            /\ errno' = err
            /\ openFds' = IF fd >= 0 THEN openFds \cup {fd} ELSE openFds
            /\ IF open_failed(fd)
               THEN \* the local Vec<RawFd> is freed, its elements are plain integers
                    /\ result' = [tag |-> "Err", err |-> io_error(err)]
                    /\ pc' = "OpenFailed"
                    /\ UNCHANGED <<fds, leader_fd, i>>
               ELSE /\ leader_fd' = next_leader_fd(i, leader_fd, fd)
                    /\ fds' = push(fds, fd)
                    /\ i' = i + 1
                    /\ UNCHANGED <<result, pc>>
    /\ UNCHANGED <<events, closes, exposed>>
    /\ UNCHANGED notPerfVars

\* Ok(EventGroup { fds })
ReturnGroup ==
    /\ pc = "Opening"
    /\ i >= Len(events)
    /\ result' = [tag |-> "Ok", group |-> [fds |-> fds]]
    /\ pc' = "Open"
    /\ UNCHANGED <<events, i, fds, leader_fd, calls, closes, openFds, errno, exposed>>
    /\ UNCHANGED notPerfVars

\* the caller asks the returned group for its leader descriptor
LeaderFd ==
    /\ pc = "Open"
    /\ exposed = <<>>
    /\ exposed' = Append(exposed, EventGroup_leader_fd(result.group))
    /\ UNCHANGED <<events, pc, i, fds, leader_fd, calls, closes, openFds, errno, result>>
    /\ UNCHANGED notPerfVars

\* the returned group goes out of scope: close(2) on every held descriptor.
\* close releases the descriptor whatever it returns.
DropEventGroup ==
    /\ pc = "Open"
    /\ \E failing \in SUBSET (1..Len(result.group.fds)) :
         LET log == drop_closes(result.group.fds, failing)
         IN /\ closes' = closes \o log
            /\ openFds' = openFds \ {log[k].fd : k \in DOMAIN log}
            /\ errno' = IF \E k \in DOMAIN log : log[k].ret < 0 THEN 5 ELSE errno
    /\ pc' = "Closed"
    /\ UNCHANGED <<events, i, fds, leader_fd, calls, result, exposed>>
    /\ UNCHANGED notPerfVars

Next ==
    \/ CreateEventGroupEntry
    \/ OpenMember
    \/ ReturnGroup
    \/ LeaderFd
    \/ DropEventGroup

Spec == Init /\ [][Next]_allVars

\* ------------------------------------------------------------ properties
CloseCount(fd) == Cardinality({k \in DOMAIN closes : closes[k].fd = fd})

LastCall == calls[Len(calls)]

\* a member's open syscall returned a negative value in this call
MemberOpenFailed == calls # <<>> /\ LastCall.ret < 0

Returned == pc \in {"Open", "OpenFailed", "Closed"}

\* C1: when the open for member k > 0 fails after members 0..k-1 were
\* opened, then once create_event_group has returned its error each of the
\* k descriptors opened earlier has been closed exactly once and none of
\* them is still open.
C1_NoLeakOnPartialFailure ==
    (pc = "OpenFailed" /\ MemberOpenFailed /\ Len(calls) > 1) =>
        \A k \in 1..(Len(calls) - 1) :
            /\ CloseCount(calls[k].ret) = 1
            /\ calls[k].ret \notin openFds

\* C2: create_event_group on an empty event list returns
\* InvalidFormat("Cannot create an event group with no events.") and issues
\* no perf_event_open call and no close call.
C2_EmptyListRejected ==
    (events = <<>> /\ pc # "Uninitialized") =>
        /\ pc = "OpenFailed"
        /\ result = [tag |-> "Err",
                     err |-> [tag |-> "InvalidFormat",
                              msg |-> "Cannot create an event group with no events."]]
        /\ calls = <<>>
        /\ closes = <<>>

C2_Witness == events = <<>> /\ pc = "OpenFailed" /\ result.tag = "Err"

\* C3: for a non-empty list of n events create_event_group returns either
\* an error or a group holding exactly n descriptors, the j-th being the one
\* the open syscall returned for the j-th requested event.
C3_GroupMatchesEvents ==
    (events # <<>> /\ Returned) =>
        \/ result.tag = "Err"
        \/ /\ result.tag = "Ok"
           /\ Len(result.group.fds) = Len(events)
           /\ Len(calls) = Len(events)
           /\ \A j \in 1..Len(events) :
                /\ calls[j].event = events[j]
                /\ result.group.fds[j] = calls[j].ret

C3_Witness == pc = "Open" /\ result.tag = "Ok" /\ Len(events) >= 2

\* C4: the attribute record passed to the open syscall for index 0 has
\* disabled = 1, inherit = 1 and read_format = GROUP|ID; the record passed
\* for every index > 0 has disabled = 0, inherit = 0 and read_format = 0.
C4_LeaderOnlyFlags ==
    \A j \in DOMAIN calls :
        IF calls[j].index = 0
        THEN /\ calls[j].attrs.disabled = 1
             /\ calls[j].attrs.inherit = 1
             /\ calls[j].attrs.read_format = 12
        ELSE /\ calls[j].attrs.disabled = 0
             /\ calls[j].attrs.inherit = 0
             /\ calls[j].attrs.read_format = 0

C4_Witness == \E j \in DOMAIN calls : calls[j].index = 0 /\ Len(calls) >= 2

\* C5: the open syscall for the first event is issued with group_fd = -1,
\* and the one for every later event with group_fd equal to the descriptor
\* the first event's open returned, which is neither -1 nor the descriptor
\* of a follower.
C5_GroupFdArgument ==
    \A j \in DOMAIN calls :
        IF j = 1
        THEN calls[j].group_fd = -1
        ELSE /\ calls[j].group_fd = calls[1].ret
             /\ calls[j].group_fd # -1
             /\ \A m \in 2..Len(calls) : calls[j].group_fd # calls[m].ret

C5_Witness == pc = "Open" /\ Len(calls) >= 3

\* C6: when a returned EventGroup is destroyed every descriptor it holds is
\* closed exactly once, also when it holds only the leader, and afterwards
\* no descriptor opened for the group is still open.
C6_DropClosesEachOnce ==
    pc = "Closed" =>
        /\ \A fd \in Range(result.group.fds) : CloseCount(fd) = 1
        /\ \A j \in DOMAIN calls : calls[j].ret \notin openFds

C6_Witness == pc = "Closed" /\ Len(result.group.fds) = 1 /\ Len(closes) = 1

\* C7 as stated: on a failed member open the returned error carries the OS
\* error code of the failed syscall and the identity of the event whose
\* open failed, and is not the variant returned for an empty list.
C7_ErrorCarriesCodeAndEvent ==
    (pc = "OpenFailed" /\ MemberOpenFailed) =>
        /\ result.tag = "Err"
        /\ result.err.tag # invalid_format_error.tag
        /\ result.err.code = LastCall.errno
        /\ "event" \in DOMAIN result.err
        /\ result.err.event = LastCall.event

\* C7 amended: on a failed member open the returned error is the Io variant
\* holding exactly the OS error code of the failed syscall (nothing
\* identifies the event), and is not the variant returned for an empty list.
C7_ErrorCarriesOsCode ==
    (pc = "OpenFailed" /\ MemberOpenFailed) =>
        /\ result.tag = "Err"
        /\ result.err = [tag |-> "Io", code |-> LastCall.errno]
        /\ LastCall.errno \in OsErrors
        /\ result.err.tag # invalid_format_error.tag

C7_Witness == pc = "OpenFailed" /\ MemberOpenFailed /\ result.err.tag = "Io"

\* C8: open syscalls are issued in event-list order, at most one per event;
\* after the first one that returns a negative value none follows and the
\* call returns an error, not a group of the members opened so far.
C8_OpenOrderNoRetry ==
    /\ Len(calls) <= Len(events)
    /\ \A j \in DOMAIN calls :
        /\ calls[j].index = j - 1
        /\ calls[j].event = events[j]
        /\ calls[j].ret < 0 => j = Len(calls)
    /\ MemberOpenFailed => (pc = "OpenFailed" /\ result.tag = "Err")

C8_Witness ==
    pc = "OpenFailed" /\ MemberOpenFailed /\ Len(calls) >= 2 /\ Len(calls) < Len(events)

\* C9: for every returned EventGroup leader_fd() yields the descriptor the
\* first open syscall of the call produced, and is defined because a
\* returned group is never empty.
C9_LeaderFdIsFirstOpen ==
    result.tag = "Ok" =>
        /\ Len(result.group.fds) >= 1
        /\ calls[1].index = 0
        /\ calls[1].event = events[1]
        /\ \A k \in DOMAIN exposed : exposed[k] = calls[1].ret

C9_Witness == pc = "Open" /\ exposed # <<>> /\ Len(result.group.fds) >= 2

\* C10: destroying an EventGroup attempts a close on every held descriptor
\* even when an earlier close fails, and no close failure reaches the
\* caller: the close attempts are as many as the held descriptors.
C10_DropAttemptsEveryClose ==
    pc = "Closed" =>
        /\ Len(closes) = Len(result.group.fds)
        /\ \A k \in DOMAIN closes : closes[k].fd = result.group.fds[k]
        /\ result.tag = "Ok"

C10_Witness ==
    pc = "Closed" /\ Len(closes) >= 2 /\ closes[1].ret < 0

\* ====================================================================
\* pipa_collector::system_stats: parse_cpu_stats_from_line
\* Text is a sequence of one-character strings.
\* ====================================================================

\* ---------------------------------------------------------------- bounds
WordBits == 8       \* bits of the unsigned word standing for u64
MaxFields == 11     \* most whitespace-separated values on a cpu line

\* u64::MAX at the modelled width
U64Max == 2 ^ WordBits - 1

Digits == <<"0", "1", "2", "3", "4", "5", "6", "7", "8", "9">>

IsDigit(c) == \E d \in DOMAIN Digits : Digits[d] = c

\* char::to_digit(10)
DigitVal(c) == (CHOOSE d \in DOMAIN Digits : Digits[d] = c) - 1

\* char::is_whitespace over the characters a line can hold
IsWhitespace(c) == c \in {" ", "\t"}

\* str::strip_prefix
strip_prefix(s, prefix) ==
    IF Len(s) >= Len(prefix) /\ SubSeq(s, 1, Len(prefix)) = prefix
    THEN [some |-> TRUE, rest |-> SubSeq(s, Len(prefix) + 1, Len(s))]
    ELSE [some |-> FALSE]

\* str::split_whitespace, collected
RECURSIVE split_whitespace(_)
split_whitespace(s) ==
    IF s = <<>> THEN <<>>
    ELSE IF IsWhitespace(Head(s)) THEN split_whitespace(Tail(s))
    ELSE LET stops == {k \in DOMAIN s : IsWhitespace(s[k])}
             stop == IF stops = {} THEN Len(s) + 1
                     ELSE CHOOSE k \in stops : \A m \in stops : k <= m
         IN <<SubSeq(s, 1, stop - 1)>> \o split_whitespace(SubSeq(s, stop, Len(s)))

\* str::parse::<u64>: an optional '+', then digits accumulated with checked
\* multiply and add
RECURSIVE parse_digits(_, _)
parse_digits(ds, acc) ==
    IF ds = <<>> THEN [ok |-> TRUE, value |-> acc]
    ELSE IF ~IsDigit(Head(ds)) THEN [ok |-> FALSE, kind |-> "InvalidDigit"]
    ELSE IF acc * 10 > U64Max \/ acc * 10 + DigitVal(Head(ds)) > U64Max
         THEN [ok |-> FALSE, kind |-> "PosOverflow"]
    ELSE parse_digits(Tail(ds), acc * 10 + DigitVal(Head(ds)))

parse_u64(tok) ==
    IF tok = <<>> THEN [ok |-> FALSE, kind |-> "Empty"]
    ELSE IF tok = <<"+">> \/ tok = <<"-">> THEN [ok |-> FALSE, kind |-> "InvalidDigit"]
    ELSE IF Head(tok) = "+" THEN parse_digits(Tail(tok), 0)
    ELSE parse_digits(tok, 0)

\* the fields of CpuStats in the order the struct literal fills them
CpuFieldNames ==
    <<"user", "nice", "system", "idle", "iowait", "irq", "softirq", "steal",
      "guest", "guest_nice">>

\* the ten parse_next! expansions, in the order the struct literal lists them
RECURSIVE parse_next_fields(_, _, _)
parse_next_fields(values, k, got) ==
    IF k > Len(CpuFieldNames) THEN [tag |-> "Ok", stats |-> got]
    ELSE IF values = <<>>
    THEN [tag |-> "Err",
          err |-> [tag |-> "MissingData", field |-> CpuFieldNames[k]]]
    ELSE LET p == parse_u64(Head(values))
         IN IF ~p.ok
            THEN [tag |-> "Err", err |-> [tag |-> "Parse", kind |-> p.kind]]
            ELSE parse_next_fields(Tail(values), k + 1, Append(got, p.value))

parse_cpu_stats_two_spaces_only(ln) ==
    LET two == strip_prefix(ln, <<"c", "p", "u", " ", " ">>)
    IN IF two.some THEN parse_next_fields(split_whitespace(two.rest), 1, <<>>)
       ELSE [tag |-> "Err", err |-> [tag |-> "InvalidFormat"]]

\* parse_cpu_stats_from_line; stats is the tuple of the ten fields in
\* CpuFieldNames order
parse_cpu_stats_from_line(ln) ==
    LET two == strip_prefix(ln, <<"c", "p", "u", " ", " ">>)
        one == strip_prefix(ln, <<"c", "p", "u", " ">>)
    IN IF two.some THEN parse_next_fields(split_whitespace(two.rest), 1, <<>>)
       ELSE IF one.some THEN parse_next_fields(split_whitespace(one.rest), 1, <<>>)
       ELSE [tag |-> "Err", err |-> [tag |-> "InvalidFormat"]]

\* ------------------------------------------------ inputs of the cpu parser
RECURSIVE Numeral(_)
Numeral(n) == IF n < 10 THEN <<Digits[n + 1]>> ELSE Numeral(n \div 10) \o <<Digits[(n % 10) + 1]>>

\* values that are not a plain small numeral
OddTokens == {<<"x">>, <<"-", "1">>, <<"+", "7">>, Numeral(U64Max), Numeral(U64Max + 1)}

LinePrefixes ==
    {<<"c", "p", "u", " ">>, <<"c", "p", "u", " ", " ">>, <<"c", "p", "u", "\t">>,
     <<"c", "q", "u", " ">>, <<"c", "p", "u", "0", " ">>, <<>>}

Separators == {<<" ">>, <<"\t", " ">>}

RECURSIVE Join(_, _)
Join(toks, sep) ==
    IF toks = <<>> THEN <<>>
    ELSE IF Len(toks) = 1 THEN toks[1]
    ELSE toks[1] \o sep \o Join(Tail(toks), sep)

InitCpuLine ==
    /\ PerfUnused
    /\ MemContentUnused
    /\ CpuUsageUnused
    /\ MonitorUnused
    /\ \E n \in 0..MaxFields :
       \E bad \in {b \in SUBSET (1..n) : Cardinality(b) <= 2} :
       \E odd \in [bad -> OddTokens] :
          cpu_fields = [k \in 1..n |-> IF k \in bad THEN odd[k] ELSE Numeral(k)]
    /\ \E pfx \in LinePrefixes : \E sep \in Separators :
          cpu_line = pfx \o Join(cpu_fields, sep)
    /\ cpu_parsed = [tag |-> "Pending"]

ParseCpuLine ==
    /\ cpu_parsed = [tag |-> "Pending"]
    /\ cpu_parsed' = parse_cpu_stats_from_line(cpu_line)
    /\ UNCHANGED <<cpu_fields, cpu_line>>
    /\ UNCHANGED notCpuVars

NextCpuLine == ParseCpuLine

\* parse_cpu_stats_from_line applied to one line
SpecCpuLine == InitCpuLine /\ [][NextCpuLine]_allVars

\* ------------------------------------------------------------ properties
StartsWithCpuSpace(ln) ==
    Len(ln) >= 4 /\ ln[1] = "c" /\ ln[2] = "p" /\ ln[3] = "u" /\ ln[4] = " "

\* a decimal numeral: one or more digits
IsNumeral(tok) == tok # <<>> /\ \A k \in DOMAIN tok : IsDigit(tok[k])

RECURSIVE DecimalValue(_)
DecimalValue(tok) ==
    IF tok = <<>> THEN 0
    ELSE DecimalValue(SubSeq(tok, 1, Len(tok) - 1)) * 10 + DigitVal(tok[Len(tok)])

Unsigned(tok) == IF tok # <<>> /\ Head(tok) = "+" THEN Tail(tok) ELSE tok

\* a non-negative decimal number of any size: an optional '+', then a numeral
IsNumeric(tok) == IsNumeral(Unsigned(tok))

\* a number that fits the unsigned word
DenotesU64(tok) == IsNumeric(tok) /\ DecimalValue(Unsigned(tok)) <= U64Max

\* the first of the ten fields that is absent or not accepted, 0 when none is
FirstUnusable(Accepts(_)) ==
    LET unusable == {k \in 1..Len(CpuFieldNames) :
                        k > Len(cpu_fields) \/ ~Accepts(cpu_fields[k])}
    IN IF unusable = {} THEN 0 ELSE CHOOSE k \in unusable : \A m \in unusable : k <= m

CpuLineClassified(Accepts(_)) ==
    cpu_parsed.tag # "Pending" =>
        IF ~StartsWithCpuSpace(cpu_line)
        THEN cpu_parsed = [tag |-> "Err", err |-> [tag |-> "InvalidFormat"]]
        ELSE LET f == FirstUnusable(Accepts)
             IN IF f = 0
                THEN cpu_parsed =
                        [tag |-> "Ok",
                         stats |-> [k \in 1..Len(CpuFieldNames) |->
                                        DecimalValue(Unsigned(cpu_fields[k]))]]
                ELSE IF f > Len(cpu_fields)
                THEN cpu_parsed =
                        [tag |-> "Err",
                         err |-> [tag |-> "MissingData", field |-> CpuFieldNames[f]]]
                ELSE cpu_parsed.tag = "Err" /\ cpu_parsed.err.tag = "Parse"

\* C11 as stated: InvalidFormat when the line does not start with "cpu ";
\* otherwise MissingData at the first absent field or Parse at the first
\* non-numeric field, and Ok exactly when all ten fields are present and
\* numeric, each field holding the value at its position.
C11_ClassifiesByNumeric == CpuLineClassified(IsNumeric)

\* C11 amended: as above with "numeric" narrowed to "numeric and no larger
\* than u64::MAX": a number too large for the word gets Parse, not Ok.
C11_ClassifiesByU64Text == CpuLineClassified(DenotesU64)

C11_Witness ==
    /\ cpu_parsed.tag # "Pending"
    /\ cpu_parsed.tag = "Err"
    /\ cpu_parsed.err.tag = "Parse"
    /\ StartsWithCpuSpace(cpu_line)
    /\ Len(cpu_fields) < 10
    /\ \E k \in DOMAIN cpu_fields : cpu_fields[k] = Numeral(U64Max + 1)

\* ====================================================================
\* pipa_collector::system_stats: parse_memory_stats_from_content
\* ====================================================================

\* ---------------------------------------------------------------- bounds
MaxLines == 5       \* most lines in a meminfo content

\* const TOTAL_FIELDS: u8 = 5
TOTAL_FIELDS == 5

KeyMemTotal == <<"M", "e", "m", "T", "o", "t", "a", "l", ":">>
KeyMemFree == <<"M", "e", "m", "F", "r", "e", "e", ":">>
KeyMemAvailable == <<"M", "e", "m", "A", "v", "a", "i", "l", "a", "b", "l", "e", ":">>
KeyBuffers == <<"B", "u", "f", "f", "e", "r", "s", ":">>
KeyCached == <<"C", "a", "c", "h", "e", "d", ":">>

\* MemoryStats::default()
MemoryStatsDefault == [total |-> 0, free |-> 0, available |-> 0, buffers |-> 0, cached |-> 0]

\* str::lines: the pieces between line feeds, without a final empty piece
RECURSIVE lines(_)
lines(content) ==
    IF content = <<>> THEN <<>>
    ELSE LET feeds == {k \in DOMAIN content : content[k] = "\n"}
             stop == IF feeds = {} THEN Len(content) + 1
                     ELSE CHOOSE k \in feeds : \A m \in feeds : k <= m
         IN <<SubSeq(content, 1, stop - 1)>> \o lines(SubSeq(content, stop + 1, Len(content)))

\* the match on key: the field assigned and the count raised
match_key(key, value, acc) ==
    IF key = KeyMemTotal
    THEN [stats |-> [acc.stats EXCEPT !.total = value], found_count |-> acc.found_count + 1]
    ELSE IF key = KeyMemFree
    THEN [stats |-> [acc.stats EXCEPT !.free = value], found_count |-> acc.found_count + 1]
    ELSE IF key = KeyMemAvailable
    THEN [stats |-> [acc.stats EXCEPT !.available = value], found_count |-> acc.found_count + 1]
    ELSE IF key = KeyBuffers
    THEN [stats |-> [acc.stats EXCEPT !.buffers = value], found_count |-> acc.found_count + 1]
    ELSE IF key = KeyCached
    THEN [stats |-> [acc.stats EXCEPT !.cached = value], found_count |-> acc.found_count + 1]
    ELSE acc

\* the for loop over content.lines()
RECURSIVE scan_lines(_, _)
scan_lines(ls, acc) ==
    IF ls = <<>> THEN acc
    ELSE LET parts == split_whitespace(Head(ls))
             key == IF Len(parts) >= 1 THEN parts[1] ELSE <<>>
             value_str == IF Len(parts) >= 2 THEN parts[2] ELSE <<>>
             value == parse_u64(value_str)
         IN IF ~value.ok THEN scan_lines(Tail(ls), acc)
            ELSE LET next == match_key(key, value.value, acc)
                 IN IF next.found_count >= TOTAL_FIELDS THEN next
                    ELSE scan_lines(Tail(ls), next)

parse_memory_stats_from_content(content) ==
    LET final == scan_lines(lines(content), [stats |-> MemoryStatsDefault, found_count |-> 0])
    IN IF final.found_count < TOTAL_FIELDS
       THEN [tag |-> "Err", err |-> [tag |-> "MissingData"]]
       ELSE [tag |-> "Ok", stats |-> final.stats]

\* ---------------------------------------------- inputs of the meminfo parser
Unit == <<" ", "k", "B">>

\* lines a meminfo content is put together from
MemLines ==
    {KeyMemTotal \o <<" ", " ">> \o Numeral(1) \o Unit,
     KeyMemFree \o <<" ">> \o Numeral(2) \o Unit,
     KeyMemAvailable \o <<" ">> \o Numeral(3) \o Unit,
     KeyBuffers \o <<" ", " ", " ">> \o Numeral(4) \o Unit,
     KeyCached \o <<" ">> \o Numeral(5),
     KeyMemTotal \o <<" ", "x">> \o Unit,
     <<"S", "w", "a", "p", ":", " ">> \o Numeral(6) \o Unit}

InitMemContent ==
    /\ PerfUnused
    /\ CpuLineUnused
    /\ CpuUsageUnused
    /\ MonitorUnused
    /\ \E n \in 0..MaxLines : \E ls \in [1..n -> MemLines] :
          /\ mem_lines = ls
          /\ mem_content = Join(ls, <<"\n">>)
    /\ mem_parsed = [tag |-> "Pending"]

ParseMemContent ==
    /\ mem_parsed.tag = "Pending"
    /\ mem_parsed' = parse_memory_stats_from_content(mem_content)
    /\ UNCHANGED <<mem_lines, mem_content>>
    /\ UNCHANGED notMemVars

NextMemContent == ParseMemContent

\* parse_memory_stats_from_content applied to one content
SpecMemContent == InitMemContent /\ [][NextMemContent]_allVars

\* ------------------------------------------------------------ properties
\* the key has a line of its own with a numeric value
HasNumericLine(key) ==
    \E k \in DOMAIN mem_lines :
        LET parts == split_whitespace(mem_lines[k])
        IN Len(parts) >= 2 /\ parts[1] = key /\ DenotesU64(parts[2])

RequiredKeys == {KeyMemTotal, KeyMemFree, KeyMemAvailable, KeyBuffers, KeyCached}

\* C12: Ok is returned only when each of the five required keys has a line
\* with a numeric value; whenever one of them has no such line the result
\* is MissingData.
C12_OkOnlyWithAllFiveKeys ==
    mem_parsed.tag # "Pending" =>
        /\ mem_parsed.tag = "Ok" => \A key \in RequiredKeys : HasNumericLine(key)
        /\ (\E key \in RequiredKeys : ~HasNumericLine(key)) =>
                mem_parsed = [tag |-> "Err", err |-> [tag |-> "MissingData"]]

\* ====================================================================
\* pipa_cli: calculate_cpu_usage
\* ====================================================================

\* u64 addition and subtraction.  A build with overflow checks (the dev
\* profile) panics when the result leaves the word, one without them (the
\* release profile) wraps.  Panicked stands for a panic and is passed on.
Panicked == -1

u64_add(a, b, checks) ==
    IF a = Panicked \/ b = Panicked THEN Panicked
    ELSE IF a + b > U64Max THEN (IF checks THEN Panicked ELSE (a + b) % (U64Max + 1))
    ELSE a + b

u64_sub(a, b, checks) ==
    IF a = Panicked \/ b = Panicked THEN Panicked
    ELSE IF a < b THEN (IF checks THEN Panicked ELSE (a - b) + (U64Max + 1))
    ELSE a - b

\* usage_percent.clamp(0.0, 100.0) of (1.0 - idle_delta / total_delta) * 100.0,
\* kept as the exact fraction num / den
clamped_percent(idle_delta, total_delta) ==
    IF idle_delta >= total_delta THEN [num |-> 0, den |-> 1]
    ELSE [num |-> (total_delta - idle_delta) * 100, den |-> total_delta]

calculate_cpu_usage(p, c, checks) ==
    LET prev_idle == u64_add(p.idle, p.iowait, checks)
        current_idle == u64_add(c.idle, c.iowait, checks)
        prev_non_idle ==
            u64_add(u64_add(u64_add(u64_add(u64_add(p.user, p.nice, checks),
                p.system, checks), p.irq, checks), p.softirq, checks), p.steal, checks)
        current_non_idle ==
            u64_add(u64_add(u64_add(u64_add(u64_add(c.user, c.nice, checks),
                c.system, checks), c.irq, checks), c.softirq, checks), c.steal, checks)
        prev_total == u64_add(prev_idle, prev_non_idle, checks)
        current_total == u64_add(current_idle, current_non_idle, checks)
        total_delta == u64_sub(current_total, prev_total, checks)
        idle_delta == u64_sub(current_idle, prev_idle, checks)
    IN IF total_delta = Panicked \/ idle_delta = Panicked THEN [tag |-> "Panic"]
       ELSE IF total_delta = 0 THEN [tag |-> "Ok", percent |-> [num |-> 0, den |-> 1]]
       ELSE [tag |-> "Ok", percent |-> clamped_percent(idle_delta, total_delta)]

\* ------------------------------------------------------------- inputs
CounterValues == {0, 1, U64Max}

\* CpuStats snapshots: idle, iowait and user vary freely, the other
\* counted fields share one small value
Snapshots ==
    {[user |-> u, nice |-> r, system |-> r, idle |-> d, iowait |-> w, irq |-> r,
      softirq |-> r, steal |-> r, guest |-> 0, guest_nice |-> 0] :
        u \in CounterValues, d \in CounterValues, w \in CounterValues, r \in {0, 1}}

InitCpuUsage ==
    /\ PerfUnused
    /\ CpuLineUnused
    /\ MemContentUnused
    /\ MonitorUnused
    /\ prev \in Snapshots
    /\ current \in Snapshots
    /\ overflow_checks \in BOOLEAN
    /\ usage = [tag |-> "Pending"]

CalculateCpuUsage ==
    /\ usage.tag = "Pending"
    /\ usage' = calculate_cpu_usage(prev, current, overflow_checks)
    /\ UNCHANGED <<prev, current, overflow_checks>>
    /\ UNCHANGED notUsageVars

NextCpuUsage == CalculateCpuUsage

\* calculate_cpu_usage applied to one pair of snapshots
SpecCpuUsage == InitCpuUsage /\ [][NextCpuUsage]_allVars

\* ------------------------------------------------------------ properties
\* idle + iowait + user + nice + system + irq + softirq + steal, unbounded
CountedTotal(st) ==
    st.idle + st.iowait + st.user + st.nice + st.system + st.irq + st.softirq + st.steal

\* C14: for every pair of snapshots calculate_cpu_usage completes and
\* returns a percentage between 0 and 100 inclusive, and returns 0 when the
\* counted total is the same in both snapshots.
C14_UsageCompletesInRange ==
    usage.tag # "Pending" =>
        /\ usage.tag = "Ok"
        /\ 0 <= usage.percent.num
        /\ usage.percent.num <= 100 * usage.percent.den
        /\ CountedTotal(prev) = CountedTotal(current) => usage.percent.num = 0

\* ====================================================================
\* Lifecycle of a counter group (create_event_group, EventGroup)
\* ====================================================================

\* the lifecycle moves the claim allows; an empty list is turned down at
\* the entry of the call, which starts and fails the opening in one step
LifecycleMoves ==
    {<<"Uninitialized", "Opening">>, <<"Opening", "Opening">>, <<"Opening", "Open">>,
     <<"Opening", "OpenFailed">>, <<"Open", "Open">>, <<"Open", "Closed">>}

LifecycleStep ==
    /\ \/ <<pc, pc'>> \in LifecycleMoves
       \/ events = <<>> /\ pc = "Uninitialized" /\ pc' = "OpenFailed"
    /\ exposed' # exposed => (pc = "Open" /\ pc' = "Open")

\* C13: the group only moves Uninitialized -> Opening -> Open or
\* OpenFailed, and from Open only to Closed; a call on n events issues at
\* most n open syscalls and ends in Open with Ok or in OpenFailed with Err;
\* the leader descriptor is handed out only in Open; in OpenFailed and
\* Closed no descriptor of the group is still open.
C13_Lifecycle ==
    /\ [][LifecycleStep]_vars
    /\ [](Len(calls) <= Len(events))
    /\ [](pc = "Open" => result.tag = "Ok")
    /\ [](pc = "OpenFailed" => result.tag = "Err")
    /\ [](pc \in {"OpenFailed", "Closed"} => openFds = {})

\* ====================================================================
\* pipa_cli: run_monitor, setup_terminal, restore_terminal
\* ====================================================================

\* ---------------------------------------------------------------- bounds
MaxIterations == 3  \* most passes of the monitor loop

\* snapshots read_cpu_stats hands to the loop
MonitorCpuStats == {CpuStatsDefault, [CpuStatsDefault EXCEPT !.idle = 1]}

\* values read_memory_stats hands to the loop
MonitorMemStats ==
    {[MemoryStatsDefault EXCEPT !.total = 1], [MemoryStatsDefault EXCEPT !.available = 1]}

InitMonitor ==
    /\ PerfUnused
    /\ CpuLineUnused
    /\ MemContentUnused
    /\ CpuUsageUnused
    /\ mon_pc = "start"
    /\ raw_mode = FALSE
    /\ alt_screen = FALSE
    /\ setup_ok = FALSE
    /\ restore_called = FALSE
    /\ prev_stats = [some |-> FALSE]
    /\ current_stats = CpuStatsDefault
    /\ mem_stats = MemoryStatsDefault
    /\ cpu_usage_percent = [num |-> 0, den |-> 1]
    /\ mon_iter = 0
    /\ mon_result = [tag |-> "None"]
    /\ mon_checks \in BOOLEAN

\* run_monitor returns at a `?`
ReturnErr(from) ==
    /\ mon_pc' = "returned"
    /\ mon_result' = [tag |-> "Err", from |-> from]

\* let mut f = setup_terminal()?
SetupTerminal ==
    /\ mon_pc = "start"
    /\ \/ /\ ReturnErr("enable_raw_mode")
          /\ UNCHANGED <<raw_mode, alt_screen, setup_ok>>
       \/ /\ raw_mode' = TRUE
          /\ ReturnErr("EnterAlternateScreen")
          /\ UNCHANGED <<alt_screen, setup_ok>>
       \/ /\ raw_mode' = TRUE
          /\ alt_screen' = TRUE
          /\ setup_ok' = TRUE
          /\ mon_pc' = "read_cpu"
          /\ UNCHANGED mon_result
    /\ UNCHANGED <<restore_called, prev_stats, current_stats, mem_stats,
                   cpu_usage_percent, mon_iter, mon_checks>>
    /\ UNCHANGED notMonVars

\* let current_stats = read_cpu_stats()?
ReadCpuStats ==
    /\ mon_pc = "read_cpu"
    /\ \/ /\ ReturnErr("read_cpu_stats")
          /\ UNCHANGED current_stats
       \/ /\ current_stats' \in MonitorCpuStats
          /\ mon_pc' = "read_mem"
          /\ UNCHANGED mon_result
    /\ UNCHANGED <<raw_mode, alt_screen, setup_ok, restore_called, prev_stats, mem_stats,
                   cpu_usage_percent, mon_iter, mon_checks>>
    /\ UNCHANGED notMonVars

\* let mem_stats = read_memory_stats()?
ReadMemoryStats ==
    /\ mon_pc = "read_mem"
    /\ \/ /\ ReturnErr("read_memory_stats")
          /\ UNCHANGED mem_stats
       \/ /\ mem_stats' \in MonitorMemStats
          /\ mon_pc' = "usage"
          /\ UNCHANGED mon_result
    /\ UNCHANGED <<raw_mode, alt_screen, setup_ok, restore_called, prev_stats, current_stats,
                   cpu_usage_percent, mon_iter, mon_checks>>
    /\ UNCHANGED notMonVars

\* cpu_usage_percent from prev_stats, then prev_stats = Some(current_stats)
ComputeUsage ==
    /\ mon_pc = "usage"
    /\ LET u == IF prev_stats.some
                THEN calculate_cpu_usage(prev_stats.stats, current_stats, mon_checks)
                ELSE [tag |-> "Ok", percent |-> [num |-> 0, den |-> 1]]
       IN IF u.tag = "Panic"
          THEN /\ mon_pc' = "panicked"
               /\ UNCHANGED <<cpu_usage_percent, prev_stats>>
          ELSE /\ cpu_usage_percent' = u.percent
               /\ prev_stats' = [some |-> TRUE, stats |-> current_stats]
               /\ mon_pc' = "draw"
    /\ UNCHANGED <<raw_mode, alt_screen, setup_ok, restore_called, current_stats, mem_stats,
                   mon_iter, mon_result, mon_checks>>
    /\ UNCHANGED notMonVars

\* draw_ui(&mut f, interval, cpu_usage_percent, &mem_stats)?
DrawUi ==
    /\ mon_pc = "draw"
    /\ IF u64_sub(mem_stats.total, mem_stats.available, mon_checks) = Panicked
       THEN mon_pc' = "panicked" /\ UNCHANGED mon_result
       ELSE \/ ReturnErr("draw_ui")
            \/ mon_pc' = "poll" /\ UNCHANGED mon_result
    /\ UNCHANGED <<raw_mode, alt_screen, setup_ok, restore_called, prev_stats, current_stats,
                   mem_stats, cpu_usage_percent, mon_iter, mon_checks>>
    /\ UNCHANGED notMonVars

\* if event::poll(tick_rate)?
PollEvent ==
    /\ mon_pc = "poll"
    /\ \/ /\ ReturnErr("event::poll")
          /\ UNCHANGED mon_iter
       \/ /\ mon_pc' = "read_event"
          /\ UNCHANGED <<mon_result, mon_iter>>
       \/ /\ mon_iter < MaxIterations
          /\ mon_iter' = mon_iter + 1
          /\ mon_pc' = "read_cpu"
          /\ UNCHANGED mon_result
    /\ UNCHANGED <<raw_mode, alt_screen, setup_ok, restore_called, prev_stats, current_stats,
                   mem_stats, cpu_usage_percent, mon_checks>>
    /\ UNCHANGED notMonVars

\* if let Event::Key(key) = event::read()? { if key.code == KeyCode::Char('q') { break; } }
ReadEvent ==
    /\ mon_pc = "read_event"
    /\ \/ /\ ReturnErr("event::read")
          /\ UNCHANGED mon_iter
       \/ /\ mon_pc' = "restore"
          /\ UNCHANGED <<mon_result, mon_iter>>
       \/ /\ mon_iter < MaxIterations
          /\ mon_iter' = mon_iter + 1
          /\ mon_pc' = "read_cpu"
          /\ UNCHANGED mon_result
    /\ UNCHANGED <<raw_mode, alt_screen, setup_ok, restore_called, prev_stats, current_stats,
                   mem_stats, cpu_usage_percent, mon_checks>>
    /\ UNCHANGED notMonVars

\* restore_terminal(&mut f)?; Ok(())
RestoreTerminal ==
    /\ mon_pc = "restore"
    /\ restore_called' = TRUE
    /\ \/ /\ ReturnErr("LeaveAlternateScreen")
          /\ UNCHANGED <<raw_mode, alt_screen>>
       \/ /\ alt_screen' = FALSE
          /\ ReturnErr("disable_raw_mode")
          /\ UNCHANGED raw_mode
       \/ /\ alt_screen' = FALSE
          /\ raw_mode' = FALSE
          /\ mon_pc' = "returned"
          /\ mon_result' = [tag |-> "Ok"]
    /\ UNCHANGED <<setup_ok, prev_stats, current_stats, mem_stats, cpu_usage_percent,
                   mon_iter, mon_checks>>
    /\ UNCHANGED notMonVars

NextMonitor ==
    \/ SetupTerminal
    \/ ReadCpuStats
    \/ ReadMemoryStats
    \/ ComputeUsage
    \/ DrawUi
    \/ PollEvent
    \/ ReadEvent
    \/ RestoreTerminal

\* one run of the monitor subcommand
SpecMonitor == InitMonitor /\ [][NextMonitor]_allVars

\* ------------------------------------------------------------ properties
\* C15: whenever run_monitor has returned after setup_terminal succeeded,
\* by 'q' or by an error of read_cpu_stats, read_memory_stats, draw_ui,
\* event::poll or event::read, restore_terminal has been executed.
C15_RestoredOnEveryReturn ==
    (mon_pc = "returned" /\ setup_ok) => restore_called

====
